---- MODULE Spec2Model ----
(***************************************************************************)
(* A model of src/create_enrichment_comparison_table.py: the p-value       *)
(* normalizer parse_p_value, the three per-method loaders, the union /     *)
(* left-join / derived-column / sort pipeline of create_comparison_table,  *)
(* and the control flow of main (file checks, load, write, summary).       *)
(*                                                                         *)
(* Conventions.  A cell of a data frame is a record, so that cells of      *)
(* different kinds stay comparable:                                        *)
(*   floats   [k |-> "nan" | "num" | "inf", m, e]   value m * 10^e         *)
(*   raw cell [t |-> "na" | "str" | "num", s, v]    s: sequence of chars   *)
(* term ids and boolean flags are strings, "NaN" being the missing marker. *)
(* The display-name columns (term_name, ...) and the pass-through columns  *)
(* (fold enrichment, counts, gene ids, ...) take no part in any key,       *)
(* count or ordering and are left out of the rows.                         *)
(***************************************************************************)
EXTENDS Integers, Sequences, FiniteSets, TLC

VARIABLES
    pc,            \* position of main / create_comparison_table
    files,         \* the results directory: per input file, exists / columns / rows
    cp_results,    \* load_clusterprofiler_results' frame
    gp_results,    \* load_gprofiler2_results' frame
    tg_results,    \* load_topgo_results' frame
    master_df,     \* the merged frame, then with derived columns
    result_df,     \* the frame create_comparison_table returns
    output_file,   \* enrichment_methods_comparison_table.csv on disk
    console,       \* what this run printed (the messages the claims are about)
    steps,         \* the stages this run completed, in order
    writes,        \* how many times this run wrote the output file
    runs,          \* how many runs of the script were started
    p_val_str,     \* parse_p_value: the argument
    parsed         \* parse_p_value: the outcome

vars == <<pc, files, cp_results, gp_results, tg_results, master_df, result_df,
          output_file, console, steps, writes, runs, p_val_str, parsed>>

pipeline_vars == <<pc, files, cp_results, gp_results, tg_results, master_df,
                   result_df, output_file, console, steps, writes, runs>>

parse_vars == <<p_val_str, parsed>>

(***************************************************************************)
(* Bounds of the model.                                                    *)
(***************************************************************************)
MaxStrLen == 4      \* longest enumerated p-value text
MaxRows == 3        \* rows of the three input files together (healthy runs)
MaxFaultyRows == 1  \* rows of the three input files together (faulty directories)
MaxRuns == 2        \* runs of the script over the same results directory

(***************************************************************************)
(* Floats.                                                                 *)
(***************************************************************************)
NaN == [k |-> "nan", m |-> 0, e |-> 0]

Inf(sign) == [k |-> "inf", m |-> sign, e |-> 0]

Abs(x) == IF x < 0 THEN -x ELSE x

RECURSIVE NumDigits(_)
NumDigits(n) == IF n < 10 THEN 1 ELSE 1 + NumDigits(n \div 10)

RECURSIVE Pow10(_)
Pow10(n) == IF n = 0 THEN 1 ELSE 10 * Pow10(n - 1)

\* decimal exponents a double can hold: above, float() gives inf; below, 0.0
MaxDecExp == 308
MinDecExp == -323

\* m * 10^e in canonical form (no trailing zero in m), so that = is numeric equality
RECURSIVE Canon(_, _)
Canon(m, e) ==
    IF m = 0 THEN [k |-> "num", m |-> 0, e |-> 0]
    ELSE IF m % 10 = 0 THEN Canon(m \div 10, e + 1)
    ELSE [k |-> "num", m |-> m, e |-> e]

\* the double nearest m * 10^e, as far as its range goes
Float(m, e) ==
    LET c == Canon(m, e)
        mag == NumDigits(Abs(c.m)) + c.e - 1      \* decimal exponent of the leading digit
    IN  IF c.m = 0 THEN c
        ELSE IF mag > MaxDecExp THEN Inf(IF c.m < 0 THEN -1 ELSE 1)
        ELSE IF mag < MinDecExp THEN Canon(0, 0)
        ELSE c

isna(v) == v.k = "nan"

\* a < b on positive canonical numbers m * 10^e
PosLess(a, b) ==
    LET ma == NumDigits(a.m) + a.e
        mb == NumDigits(b.m) + b.e
        da == NumDigits(a.m)
        db == NumDigits(b.m)
    IN  IF ma # mb THEN ma < mb
        ELSE IF da <= db THEN a.m * Pow10(db - da) < b.m
        ELSE a.m < b.m * Pow10(da - db)

Sign(v) == IF v.m > 0 THEN 1 ELSE IF v.m < 0 THEN -1 ELSE 0

Neg(v) == [v EXCEPT !.m = -v.m]

\* the float comparison a < b: False as soon as one side is NaN
FloatLess(a, b) ==
    IF isna(a) \/ isna(b) THEN FALSE
    ELSE IF Sign(a) # Sign(b) THEN Sign(a) < Sign(b)
    ELSE IF Sign(a) = 0 THEN FALSE
    ELSE IF a.k = "inf" \/ b.k = "inf" THEN
         IF Sign(a) > 0 THEN a.k = "num" /\ b.k = "inf"
         ELSE a.k = "inf" /\ b.k = "num"
    ELSE IF Sign(a) > 0 THEN PosLess(a, b)
    ELSE PosLess(Neg(b), Neg(a))

(***************************************************************************)
(* Text: a string is a sequence of one-character strings.                  *)
(***************************************************************************)
Digits == <<"0", "1", "2", "3", "4", "5", "6", "7", "8", "9">>

IsDigit(c) == \E d \in 1..10 : Digits[d] = c

DigitVal(c) == (CHOOSE d \in 1..10 : Digits[d] = c) - 1

IsDigits(s) == Len(s) > 0 /\ \A i \in 1..Len(s) : IsDigit(s[i])

RECURSIVE DigitsVal(_)
DigitsVal(s) ==
    IF Len(s) = 0 THEN 0
    ELSE 10 * DigitsVal(SubSeq(s, 1, Len(s) - 1)) + DigitVal(s[Len(s)])

RECURSIVE lstrip(_)
lstrip(s) == IF Len(s) > 0 /\ s[1] = " " THEN lstrip(Tail(s)) ELSE s

RECURSIVE rstrip(_)
rstrip(s) ==
    IF Len(s) > 0 /\ s[Len(s)] = " " THEN rstrip(SubSeq(s, 1, Len(s) - 1)) ELSE s

strip(s) == rstrip(lstrip(s))

startswith(s, c) == Len(s) > 0 /\ s[1] = c

\* first position of c in s, or 0
Find(s, c) ==
    IF \E i \in 1..Len(s) : s[i] = c
    THEN CHOOSE i \in 1..Len(s) : s[i] = c /\ \A j \in 1..(i - 1) : s[j] # c
    ELSE 0

\* an optional sign, split off
SignOf(s) == IF startswith(s, "-") THEN -1 ELSE 1

Unsigned(s) == IF startswith(s, "-") \/ startswith(s, "+") THEN Tail(s) ELSE s

AllDigits(s) == \A i \in 1..Len(s) : IsDigit(s[i])

RECURSIVE DigitsOf(_)
DigitsOf(n) ==
    IF n < 10 THEN <<Digits[n + 1]>>
    ELSE DigitsOf(n \div 10) \o <<Digits[(n % 10) + 1]>>

Zeros(n) == [i \in 1..n |-> "0"]

(***************************************************************************)
(* float(text): Python's float() on the characters the model draws from:   *)
(* blanks around the number are skipped, then                              *)
(* [sign] digits [. digits] [e [sign] digits], "1." and ".5" included, or  *)
(* [sign] nan.  ok = FALSE is ValueError.                                  *)
(***************************************************************************)
float(text) ==
    LET s    == strip(text)
        u    == Unsigned(s)
        epos == Find(u, "e")
        mant == IF epos = 0 THEN u ELSE SubSeq(u, 1, epos - 1)
        expo == IF epos = 0 THEN <<>> ELSE SubSeq(u, epos + 1, Len(u))
        dot  == Find(mant, ".")
        ip   == IF dot = 0 THEN mant ELSE SubSeq(mant, 1, dot - 1)
        fp   == IF dot = 0 THEN <<>> ELSE SubSeq(mant, dot + 1, Len(mant))
        mant_ok == AllDigits(ip) /\ AllDigits(fp) /\ Len(ip) + Len(fp) > 0
        exp_ok  == epos = 0 \/ IsDigits(Unsigned(expo))
        ev   == IF epos = 0 THEN 0 ELSE SignOf(expo) * DigitsVal(Unsigned(expo))
    IN  IF u = <<"n", "a", "n">> THEN [ok |-> TRUE, v |-> NaN]
        ELSE IF mant_ok /\ exp_ok
             THEN [ok |-> TRUE, v |-> Float(SignOf(s) * DigitsVal(ip \o fp), ev - Len(fp))]
        ELSE [ok |-> FALSE, v |-> NaN]

(***************************************************************************)
(* str(x) of a float cell: repr's shortest form, positional for decimal    *)
(* exponents -4..15 and scientific (two exponent digits at least) outside. *)
(***************************************************************************)
ReprMinExp == -4
ReprMaxExp == 16

float_repr(v) ==
    LET a  == Abs(v.m)
        d  == DigitsOf(a)
        n  == Len(d)
        x  == n + v.e - 1
        sg == IF v.m < 0 THEN <<"-">> ELSE <<>>
        xd == DigitsOf(Abs(x))
        positional ==
            IF v.e >= 0 THEN d \o Zeros(v.e) \o <<".", "0">>
            ELSE IF -v.e < n THEN SubSeq(d, 1, n + v.e) \o <<".">> \o SubSeq(d, n + v.e + 1, n)
            ELSE <<"0", ".">> \o Zeros(-v.e - n) \o d
        scientific ==
            <<d[1]>> \o (IF n > 1 THEN <<".">> \o SubSeq(d, 2, n) ELSE <<>>)
            \o <<"e", IF x < 0 THEN "-" ELSE "+">>
            \o (IF Len(xd) < 2 THEN <<"0">> \o xd ELSE xd)
    IN  IF v.k = "nan" THEN <<"n", "a", "n">>
        ELSE IF v.k = "inf" THEN sg \o <<"i", "n", "f">>
        ELSE IF a = 0 THEN <<"0", ".", "0">>
        ELSE IF x >= ReprMinExp /\ x < ReprMaxExp THEN sg \o positional
        ELSE sg \o scientific

(***************************************************************************)
(* Raw cells, as read_csv hands them over.                                 *)
(***************************************************************************)
NaCell == [t |-> "na", s |-> <<>>, v |-> NaN]

StrCell(s) == [t |-> "str", s |-> s, v |-> NaN]

NumCell(m, e) == [t |-> "num", s |-> <<>>, v |-> Float(m, e)]

str(cell) == IF cell.t = "num" THEN float_repr(cell.v) ELSE cell.s

(***************************************************************************)
(* parse_p_value.  The outcome is the returned float, or the exception     *)
(* that escapes the function.                                              *)
(***************************************************************************)
Returned(v) == [exc |-> "none", v |-> v]

\* parse_p_value without the branch for a leading "<"
NoLessThanStrip(p_val) ==
    LET r == float(strip(str(p_val)))
    IN  IF p_val.t = "na" THEN Returned(NaN)
        ELSE IF r.ok THEN Returned(r.v) ELSE Returned(NaN)

parse_p_value(p_val) ==
    LET p_str == strip(str(p_val))
        rest  == IF startswith(p_str, "<") THEN strip(Tail(p_str)) ELSE p_str
        r     == float(rest)
    IN  IF p_val.t = "na" THEN Returned(NaN)
        ELSE IF r.ok THEN Returned(r.v)
        ELSE Returned(NaN)                       \* except ValueError

(***************************************************************************)
(* The input files.  Each is a record [exists, has_columns, rows]; a row   *)
(* holds the columns of the file that reach a key, a count or the sort.    *)
(***************************************************************************)
FileOrder == <<"cp", "gp", "tg">>

Paths == [cp |-> "results/clusterProfiler_enrichment_results.csv",
          gp |-> "results/gprofiler2_enrichment_results.csv",
          tg |-> "results/topGO_enrichment_results.csv"]

OutputPath == "results/enrichment_methods_comparison_table.csv"

Terms == {"GO:1", "GO:2"}

\* clusterProfiler_enrichment_results.csv: ID, pvalue, qvalue
CpValues == {<<Float(2, -2), Float(1, -2)>>, <<Float(4, -2), Float(5, -2)>>,
             <<NaN, Float(1, -2)>>}

CpRows == {[ID |-> t, pvalue |-> pq[1], qvalue |-> pq[2]] : t \in Terms, pq \in CpValues}
          \cup {[ID |-> "NaN", pvalue |-> Float(2, -2), qvalue |-> Float(1, -2)]}

\* gprofiler2_enrichment_results.csv: source, term_id, p_value, significant
GpValues == {<<Float(3, -2), "True">>, <<Float(3, -2), "False">>,
             <<NaN, "True">>, <<Float(3, -2), "NaN">>}

GpRows == {[source |-> "GO:BP", term_id |-> t, p_value |-> ps[1], significant |-> ps[2]] :
              t \in Terms, ps \in GpValues}
          \cup {[source |-> "GO:BP", term_id |-> "NaN", p_value |-> Float(3, -2),
                 significant |-> "True"],
                [source |-> "KEGG", term_id |-> "GO:1", p_value |-> Float(3, -2),
                 significant |-> "True"]}

\* topGO_enrichment_results.csv: GO.ID, fisher (the text of the cell)
FisherTexts == {<<"<", " ", "1", "e", "-", "3", "0">>, <<"0", ".", "2">>, <<"n", "/", "a">>}

TgRows == {[GO_ID |-> t, fisher |-> f] : t \in Terms, f \in FisherTexts}
          \cup {[GO_ID |-> "NaN", fisher |-> <<"0", ".", "2">>]}

Tables(Rows, n) == [1..n -> Rows]

\* a file that is absent, or present without its columns, or present and sound
FileStatus == {"absent", "no_columns", "sound"}

File(status, rows) ==
    [exists |-> status # "absent", has_columns |-> status = "sound", rows |-> rows]

RowsMax(status, max) == IF status = "absent" THEN 0 ELSE max

AllSound == [cp |-> "sound", gp |-> "sound", tg |-> "sound"]

Statuses == [cp : FileStatus, gp : FileStatus, tg : FileStatus]

\* files is a results directory of the given file statuses holding at most max rows
IsDir(st, max) ==
    \E a \in 0..RowsMax(st.cp, max) :
      \E b \in 0..RowsMax(st.gp, max - a) :
        \E c \in 0..RowsMax(st.tg, max - a - b) :
          \E x \in Tables(CpRows, a), y \in Tables(GpRows, b), z \in Tables(TgRows, c) :
            files = [cp |-> File(st.cp, x), gp |-> File(st.gp, y), tg |-> File(st.tg, z)]

(***************************************************************************)
(* The loaders.  Each returns its frame, or the exception read_csv or the  *)
(* column selection raises.                                                *)
(***************************************************************************)
Bool(b) == IF b THEN "True" ELSE "False"

Threshold == Float(5, -2)

Frame(df) == [exc |-> "none", df |-> df]

Failed(e) == [exc |-> e, df |-> <<>>]

load_clusterprofiler_results(f) ==
    IF ~f.exists THEN Failed("FileNotFoundError")
    ELSE IF ~f.has_columns THEN Failed("KeyError")
    ELSE Frame([i \in 1..Len(f.rows) |->
            [term_id |-> f.rows[i].ID,
             clusterprofiler_pvalue |-> f.rows[i].pvalue,
             clusterprofiler_qvalue |-> f.rows[i].qvalue,
             clusterprofiler_significant |-> Bool(FloatLess(f.rows[i].qvalue, Threshold))]])

IsGoBp(r) == r.source = "GO:BP"

\* a loader that answers a missing column with an empty frame
load_gprofiler2_lenient(f) ==
    IF ~f.exists THEN Failed("FileNotFoundError")
    ELSE IF ~f.has_columns THEN Frame(<<>>)
    ELSE LET df == SelectSeq(f.rows, IsGoBp)
         IN  Frame([i \in 1..Len(df) |->
                [term_id |-> df[i].term_id,
                 gprofiler2_pvalue |-> df[i].p_value,
                 gprofiler2_significant |-> df[i].significant]])

load_gprofiler2_results(f) ==
    IF ~f.exists THEN Failed("FileNotFoundError")
    ELSE IF ~f.has_columns THEN Failed("KeyError")
    ELSE LET df == SelectSeq(f.rows, IsGoBp)
         IN  Frame([i \in 1..Len(df) |->
                [term_id |-> df[i].term_id,
                 gprofiler2_pvalue |-> df[i].p_value,
                 gprofiler2_significant |-> df[i].significant]])

\* texts read_csv takes for a missing value (those the model's inputs can hold)
NaValues == {<<>>, <<"n", "/", "a">>, <<"n", "a", "n">>, <<"N", "a", "N">>, <<"N", "A">>}

\* read_csv on one column of texts: missing values become NaN; the column is
\* float when every other cell is a number, and keeps the texts when not
read_csv_column(col) ==
    LET present == {i \in 1..Len(col) : col[i] \notin NaValues}
        numeric == \A i \in present : float(col[i]).ok
    IN  [i \in 1..Len(col) |->
            IF i \notin present THEN NaCell
            ELSE IF numeric THEN [t |-> "num", s |-> <<>>, v |-> float(col[i]).v]
            ELSE StrCell(col[i])]

load_topgo_results(f) ==
    IF ~f.exists THEN Failed("FileNotFoundError")
    ELSE IF ~f.has_columns THEN Failed("KeyError")
    ELSE LET fisher == read_csv_column([i \in 1..Len(f.rows) |-> f.rows[i].fisher])
             p == [i \in 1..Len(f.rows) |-> parse_p_value(fisher[i])]
         IN  IF \E i \in 1..Len(p) : p[i].exc # "none"
             THEN Failed((p[CHOOSE i \in 1..Len(p) : p[i].exc # "none"]).exc)
             ELSE Frame([i \in 1..Len(f.rows) |->
                    [term_id |-> f.rows[i].GO_ID,
                     topgo_pvalue_raw |-> fisher[i],
                     topgo_pvalue |-> p[i].v,
                     topgo_significant_flag |-> Bool(FloatLess(p[i].v, Threshold))]])

(***************************************************************************)
(* create_comparison_table: union of the term ids, the three left joins,   *)
(* the derived columns, the sort.                                          *)
(***************************************************************************)
\* Series.dropna() of a term_id column, as a set
dropna(df) == {df[i].term_id : i \in 1..Len(df)} \ {"NaN"}

\* the union with the third table's update left out
AllTermsTwoTables(cp, gp, tg) == dropna(cp) \cup dropna(gp)

AllTerms(cp, gp, tg) == dropna(cp) \cup dropna(gp) \cup dropna(tg)

\* list(all_terms): the set's iteration order follows the strings' hashes, which
\* Python salts per process; any order of the set can come out
ListOrders(S) ==
    {o \in [1..Cardinality(S) -> S] : \A i, j \in 1..Cardinality(S) : i # j => o[i] # o[j]}

RECURSIVE Concat(_)
Concat(ss) == IF Len(ss) = 0 THEN <<>> ELSE Head(ss) \o Concat(Tail(ss))

\* DataFrame.merge(right, on='term_id', how='left'): the left rows in their
\* order, each once per matching right row, or once with `missing` for none
merge(left, right, missing) ==
    Concat([i \in 1..Len(left) |->
        LET hit(r) == r.term_id = left[i].term_id
            m == SelectSeq(right, hit)
        IN  IF Len(m) = 0 THEN <<missing @@ left[i]>>
            ELSE [j \in 1..Len(m) |-> m[j] @@ left[i]]])

CpMissing == [clusterprofiler_pvalue |-> NaN, clusterprofiler_qvalue |-> NaN,
              clusterprofiler_significant |-> "NaN"]

GpMissing == [gprofiler2_pvalue |-> NaN, gprofiler2_significant |-> "NaN"]

TgMissing == [topgo_pvalue_raw |-> NaCell, topgo_pvalue |-> NaN,
              topgo_significant_flag |-> "NaN"]

\* read_csv types a non-empty id column without a single id as float64, and
\* merge refuses to join the object keys of a non-empty left frame with a
\* non-empty float64 key column (ValueError)
IdColumn(name) ==
    IF name = "cp" THEN [i \in 1..Len(files.cp.rows) |-> files.cp.rows[i].ID]
    ELSE IF name = "gp" THEN [i \in 1..Len(files.gp.rows) |-> files.gp.rows[i].term_id]
    ELSE [i \in 1..Len(files.tg.rows) |-> files.tg.rows[i].GO_ID]

FloatKeys(name) ==
    /\ Len(IdColumn(name)) > 0
    /\ \A i \in 1..Len(IdColumn(name)) : IdColumn(name)[i] = "NaN"

MergeRaises(terms, cp, gp, tg) ==
    /\ terms # {}
    /\ \/ Len(cp) > 0 /\ FloatKeys("cp")
       \/ Len(gp) > 0 /\ FloatKeys("gp")
       \/ Len(tg) > 0 /\ FloatKeys("tg")

Merged(order, cp, gp, tg) ==
    LET base == [i \in 1..Len(order) |-> [term_id |-> order[i]]]
    IN  merge(merge(merge(base, cp, CpMissing), gp, GpMissing), tg, TgMissing)

notna_int(v) == IF isna(v) THEN 0 ELSE 1

\* fillna(True): a missing flag counted as significant
fillna_True(flag) == IF flag = "NaN" THEN "True" ELSE flag

fillna_False(flag) == IF flag = "NaN" THEN "False" ELSE flag

astype_int(flag) == IF flag = "True" THEN 1 ELSE 0

\* the count taken over clusterProfiler's q-value column
methods_total_qvalue(row) ==
    notna_int(row.clusterprofiler_qvalue) + notna_int(row.gprofiler2_pvalue)
    + notna_int(row.topgo_pvalue)

methods_total(row) ==
    notna_int(row.clusterprofiler_pvalue) + notna_int(row.gprofiler2_pvalue)
    + notna_int(row.topgo_pvalue)

methods_significant(row) ==
    astype_int(fillna_False(row.clusterprofiler_significant))
    + astype_int(fillna_False(row.gprofiler2_significant))
    + astype_int(fillna_False(row.topgo_significant_flag))

Derived(df) ==
    [i \in 1..Len(df) |->
        [methods_total |-> methods_total(df[i]),
         methods_significant |-> methods_significant(df[i])] @@ df[i]]

\* min(axis=1) of two cells, NaN skipped
Min2(a, b) == IF isna(a) THEN b ELSE IF isna(b) THEN a ELSE IF FloatLess(b, a) THEN b ELSE a

min_pvalue(row) ==
    Min2(Min2(row.clusterprofiler_pvalue, row.gprofiler2_pvalue), row.topgo_pvalue)

\* ascending = [False, True, True]
BeforeTotalAscending(a, b) ==
    \/ a.methods_significant > b.methods_significant
    \/ /\ a.methods_significant = b.methods_significant
       /\ a.methods_total < b.methods_total
    \/ /\ a.methods_significant = b.methods_significant
       /\ a.methods_total = b.methods_total
       /\ \/ FloatLess(min_pvalue(a), min_pvalue(b))
          \/ ~isna(min_pvalue(a)) /\ isna(min_pvalue(b))

\* a sorts strictly before b under by = [methods_significant, methods_total,
\* min_pvalue], ascending = [False, False, True], NaN last
Before(a, b) ==
    \/ a.methods_significant > b.methods_significant
    \/ /\ a.methods_significant = b.methods_significant
       /\ a.methods_total > b.methods_total
    \/ /\ a.methods_significant = b.methods_significant
       /\ a.methods_total = b.methods_total
       /\ \/ FloatLess(min_pvalue(a), min_pvalue(b))
          \/ ~isna(min_pvalue(a)) /\ isna(min_pvalue(b))

RECURSIVE Insert(_, _)
Insert(sorted, x) ==
    IF Len(sorted) = 0 THEN <<x>>
    ELSE IF Before(x, Head(sorted)) THEN <<x>> \o sorted
    ELSE <<Head(sorted)>> \o Insert(Tail(sorted), x)

\* sort_values: a stable sort, rows with equal keys keep the frame's order
RECURSIVE sort_values(_)
sort_values(df) ==
    IF Len(df) = 0 THEN <<>>
    ELSE Insert(sort_values(SubSeq(df, 1, Len(df) - 1)), df[Len(df)])

(***************************************************************************)
(* main, one action per stage.                                             *)
(***************************************************************************)
NoFile == [present |-> FALSE, rows |-> <<>>]

Missing == {i \in 1..3 : ~files[FileOrder[i]].exists}

FirstMissing == CHOOSE i \in Missing : \A j \in Missing : i <= j

\* the existence check with the return after the message left out
CheckFilesNoReturn ==
    /\ pc = "start"
    /\ console' = IF Missing # {}
                  THEN Append(console,
                          <<"Error: File not found - ", Paths[FileOrder[FirstMissing]]>>)
                  ELSE Append(console,
                          <<"Creating comprehensive enrichment comparison table...">>)
    /\ pc' = "checked"
    /\ UNCHANGED <<files, cp_results, gp_results, tg_results, master_df, result_df,
                   output_file, steps, writes, runs, p_val_str, parsed>>

\* main, lines 200-207: the existence check of the three paths, in order
CheckFiles ==
    /\ pc = "start"
    /\ IF Missing # {}
       THEN /\ console' = Append(console,
                             <<"Error: File not found - ", Paths[FileOrder[FirstMissing]]>>)
            /\ pc' = "returned"
       ELSE /\ console' = Append(console,
                             <<"Creating comprehensive enrichment comparison table...">>)
            /\ pc' = "checked"
    /\ UNCHANGED <<files, cp_results, gp_results, tg_results, master_df, result_df,
                   output_file, steps, writes, runs, parse_vars>>

Load(at, r, frame, next, stage) ==
    /\ pc = at
    /\ IF r.exc = "none"
       THEN /\ frame' = r.df
            /\ pc' = next
            /\ steps' = Append(steps, stage)
       ELSE /\ pc' = "crashed"
            /\ UNCHANGED <<frame, steps>>

LoadClusterProfiler ==
    /\ Load("checked", load_clusterprofiler_results(files.cp), cp_results,
            "cp_loaded", "load_cp")
    /\ UNCHANGED <<files, gp_results, tg_results, master_df, result_df, output_file,
                   console, writes, runs, parse_vars>>

LoadGprofiler2 ==
    /\ Load("cp_loaded", load_gprofiler2_results(files.gp), gp_results,
            "gp_loaded", "load_gp")
    /\ UNCHANGED <<files, cp_results, tg_results, master_df, result_df, output_file,
                   console, writes, runs, parse_vars>>

LoadTopGO ==
    /\ Load("gp_loaded", load_topgo_results(files.tg), tg_results,
            "tg_loaded", "load_tg")
    /\ UNCHANGED <<files, cp_results, gp_results, master_df, result_df, output_file,
                   console, writes, runs, parse_vars>>

\* lines 112-126
Merge ==
    /\ pc = "tg_loaded"
    /\ IF MergeRaises(AllTerms(cp_results, gp_results, tg_results),
                      cp_results, gp_results, tg_results)
       THEN /\ pc' = "crashed"
            /\ UNCHANGED <<master_df, steps>>
       ELSE /\ \E order \in ListOrders(AllTerms(cp_results, gp_results, tg_results)) :
                  master_df' = Merged(order, cp_results, gp_results, tg_results)
            /\ pc' = "merged"
            /\ steps' = Append(steps, "merge")
    /\ UNCHANGED <<files, cp_results, gp_results, tg_results, result_df, output_file,
                   console, writes, runs, parse_vars>>

\* lines 137-154
Derive ==
    /\ pc = "merged"
    /\ master_df' = Derived(master_df)
    /\ pc' = "derived"
    /\ steps' = Append(steps, "derive")
    /\ UNCHANGED <<files, cp_results, gp_results, tg_results, result_df, output_file,
                   console, writes, runs, parse_vars>>

\* lines 156-187
Sort ==
    /\ pc = "derived"
    /\ result_df' = sort_values(master_df)
    /\ pc' = "sorted"
    /\ steps' = Append(steps, "sort")
    /\ UNCHANGED <<files, cp_results, gp_results, tg_results, master_df, output_file,
                   console, writes, runs, parse_vars>>

\* lines 216-276: to_csv, then the summary on the console
SaveAndReport ==
    /\ pc = "sorted"
    /\ output_file' = [present |-> TRUE, rows |-> result_df]
    /\ writes' = writes + 1
    /\ console' = Append(console, <<"Comparison table saved to: ", OutputPath>>)
    /\ pc' = "done"
    /\ steps' = Append(steps, "write")
    /\ UNCHANGED <<files, cp_results, gp_results, tg_results, master_df, result_df,
                   runs, parse_vars>>

\* the script is started again over the same results directory
Rerun ==
    /\ pc \in {"done", "returned", "crashed"}
    /\ runs < MaxRuns
    /\ runs' = runs + 1
    /\ pc' = "start"
    /\ cp_results' = <<>>
    /\ gp_results' = <<>>
    /\ tg_results' = <<>>
    /\ master_df' = <<>>
    /\ result_df' = <<>>
    /\ console' = <<>>
    /\ steps' = <<>>
    /\ writes' = 0
    /\ UNCHANGED <<files, output_file, parse_vars>>

IdleParse == [exc |-> "idle", v |-> NaN]

Init ==
    /\ \/ IsDir(AllSound, MaxRows)
       \/ \E st \in Statuses \ {AllSound} : IsDir(st, MaxFaultyRows)
    /\ pc = "start"
    /\ cp_results = <<>>
    /\ gp_results = <<>>
    /\ tg_results = <<>>
    /\ master_df = <<>>
    /\ result_df = <<>>
    /\ output_file = NoFile
    /\ console = <<>>
    /\ steps = <<>>
    /\ writes = 0
    /\ runs = 1
    /\ p_val_str = NaCell
    /\ parsed = IdleParse

Next ==
    \/ CheckFiles
    \/ LoadClusterProfiler
    \/ LoadGprofiler2
    \/ LoadTopGO
    \/ Merge
    \/ Derive
    \/ Sort
    \/ SaveAndReport
    \/ Rerun

Spec == Init /\ [][Next]_vars

(***************************************************************************)
(* parse_p_value on its own: every cell of the bounded input set.          *)
(***************************************************************************)
Alphabet == {" ", "<", "0", "1", "5", ".", "e", "-", "n", "a"}

Texts == UNION {[1..n -> Alphabet] : n \in 0..MaxStrLen}

Examples == {<<"<", " ", "1", "e", "-", "3", "0">>, <<"0", ".", "0", "5">>, <<>>,
             <<"n", "/", "a">>, <<" ", "<", " ", " ", "5", "e", "-", "5", " ">>}

NumCells == {NumCell(5, -2), NumCell(2, -1), NumCell(1, -30), NumCell(15, -8),
             NumCell(1, 0), NumCell(-25, 1), NumCell(0, 0)}

Cells == {NaCell} \cup {StrCell(s) : s \in Texts \cup Examples} \cup NumCells

Pending == [exc |-> "pending", v |-> NaN]

InitParse ==
    /\ p_val_str \in Cells
    /\ parsed = Pending
    /\ files = [cp |-> File("absent", <<>>), gp |-> File("absent", <<>>),
                tg |-> File("absent", <<>>)]
    /\ pc = "idle"
    /\ cp_results = <<>>
    /\ gp_results = <<>>
    /\ tg_results = <<>>
    /\ master_df = <<>>
    /\ result_df = <<>>
    /\ output_file = NoFile
    /\ console = <<>>
    /\ steps = <<>>
    /\ writes = 0
    /\ runs = 1

ParseCall ==
    /\ parsed = Pending
    /\ parsed' = parse_p_value(p_val_str)
    /\ UNCHANGED <<p_val_str, pipeline_vars>>

NextParse == ParseCall

SpecParse == InitParse /\ [][NextParse]_vars

(***************************************************************************)
(* Properties of create_comparison_table's result.                         *)
(***************************************************************************)
HasResult == pc \in {"sorted", "done"}

Loaded == <<cp_results, gp_results, tg_results>>

\* the rows of a frame that carry term id t
RowsOf(df, t) == {i \in 1..Len(df) : df[i].term_id = t}

Reports(df, t) == RowsOf(df, t) # {}

\* the non-missing term ids of the three loaded tables
InputTerms == {t \in Terms : \E k \in 1..3 : Reports(Loaded[k], t)}

OutputTerms == {result_df[i].term_id : i \in 1..Len(result_df)}

NoTermLostOrInvented == OutputTerms = InputTerms

Flags(row) == [cp |-> row.clusterprofiler_significant,
               gp |-> row.gprofiler2_significant,
               tg |-> row.topgo_significant_flag]

PValues(row) == [cp |-> row.clusterprofiler_pvalue,
                 gp |-> row.gprofiler2_pvalue,
                 tg |-> row.topgo_pvalue]

Methods == {"cp", "gp", "tg"}

TableOf == [cp |-> cp_results, gp |-> gp_results, tg |-> tg_results]

\* C2: methods_significant is the number of the three flags that are true, a
\* missing flag counting as false, and a method with no row for the term adds
\* nothing.
C2_SignificantCount ==
    HasResult =>
        \A i \in 1..Len(result_df) :
            LET row == result_df[i]
            IN  /\ row.methods_significant
                     = Cardinality({m \in Methods : Flags(row)[m] = "True"})
                /\ \A m \in Methods :
                      ~Reports(TableOf[m], row.term_id) => Flags(row)[m] = "NaN"
                /\ row.methods_significant
                     <= Cardinality({m \in Methods : Reports(TableOf[m], row.term_id)})

C2_Witness ==
    /\ HasResult
    /\ \E i \in 1..Len(result_df) :
          /\ result_df[i].methods_significant = 1
          /\ result_df[i].clusterprofiler_significant = "True"
          /\ result_df[i].gprofiler2_significant = "NaN"
          /\ Reports(gp_results, result_df[i].term_id)
          /\ ~Reports(tg_results, result_df[i].term_id)

C4_TotalIsReportingMethods ==
    HasResult =>
        \A i \in 1..Len(result_df) :
            result_df[i].methods_total
                = Cardinality({m \in Methods : Reports(TableOf[m], result_df[i].term_id)})

\* the non-missing p-values of a row, and the least of them
Numeric(row) == {PValues(row)[m] : m \in Methods} \ {NaN}

Least(P) == CHOOSE p \in P : \A q \in P : ~FloatLess(q, p)

TermColumn(df) == [i \in 1..Len(df) |-> df[i].term_id]

\* C9: a second run over the same three input files returns the rows in the
\* order the first run wrote them.
C9_SameOrderEveryRun ==
    (pc = "sorted" /\ runs > 1 /\ output_file.present)
        => TermColumn(result_df) = TermColumn(output_file.rows)

\* C10: methods_significant never exceeds methods_total.
C10_SignificantAtMostTotal ==
    HasResult =>
        \A i \in 1..Len(result_df) :
            result_df[i].methods_significant <= result_df[i].methods_total

(***************************************************************************)
(* Properties of main.                                                     *)
(***************************************************************************)
MissingPaths == {Paths[FileOrder[i]] : i \in Missing}

Stages == <<"load_cp", "load_gp", "load_tg", "merge", "derive", "sort", "write">>

\* C6: with an input file absent, the run prints an error naming a missing
\* path, loads nothing, writes nothing and returns; a run writes the output
\* file only when the three files exist.
C6_MissingFileReturns ==
    /\ (Missing # {} /\ pc # "start") =>
          /\ pc = "returned"
          /\ Len(console) = 1
          /\ console[1][1] = "Error: File not found - "
          /\ console[1][2] \in MissingPaths
          /\ steps = <<>>
          /\ Loaded = <<<<>>, <<>>, <<>>>>
          /\ writes = 0
          /\ ~output_file.present
    /\ writes > 0 => Missing = {}

C6_Witness ==
    /\ pc = "returned"
    /\ files.cp.exists
    /\ ~files.gp.exists
    /\ files.tg.exists
    /\ console = <<<<"Error: File not found - ", Paths.gp>>>>
    /\ writes = 0

\* the input files that exist without the columns their loader selects
Unreadable == {i \in 1..3 : files[FileOrder[i]].exists /\ ~files[FileOrder[i]].has_columns}

FirstUnreadable == CHOOSE i \in Unreadable : \A j \in Unreadable : i <= j

\* C7: with the three files present and one lacking a column, its loader
\* fails, the run stops there and writes nothing; the one write of a run
\* comes after the three loaders, the merge, the derived columns and the sort.
C7_SchemaErrorAborts ==
    /\ writes <= 1
    /\ writes = 1 => (steps = Stages /\ Unreadable = {} /\ Missing = {})
    /\ pc = "done" => writes = 1
    /\ (Missing = {} /\ Unreadable # {}) =>
          /\ writes = 0
          /\ ~output_file.present
          /\ steps = SubSeq(Stages, 1, Len(steps))
          /\ Len(steps) < FirstUnreadable
          /\ pc \in {"start", "checked", "cp_loaded", "gp_loaded", "crashed"}
          /\ pc = "crashed" => Len(steps) = FirstUnreadable - 1

C7_Witness ==
    /\ pc = "crashed"
    /\ Missing = {}
    /\ Unreadable = {2}
    /\ steps = <<"load_cp">>
    /\ Len(cp_results) = 1
    /\ writes = 0

(***************************************************************************)
(* Properties of parse_p_value.                                            *)
(***************************************************************************)
NonBlank(s) == {i \in 1..Len(s) : s[i] # " "}

\* s without its leading blanks, and without its leading and trailing blanks
LeftTrimmed(s) ==
    IF NonBlank(s) = {} THEN <<>>
    ELSE SubSeq(s, CHOOSE i \in NonBlank(s) : \A j \in NonBlank(s) : i <= j, Len(s))

Trimmed(s) ==
    IF NonBlank(s) = {} THEN <<>>
    ELSE SubSeq(s, CHOOSE i \in NonBlank(s) : \A j \in NonBlank(s) : i <= j,
                   CHOOSE i \in NonBlank(s) : \A j \in NonBlank(s) : j <= i)

Remainder(s) ==
    LET t == Trimmed(s)
    IN  IF Len(t) > 0 /\ t[1] = "<" THEN LeftTrimmed(SubSeq(t, 2, Len(t))) ELSE t

Text(s) == StrCell(s)

\* C8: parse_p_value never raises; a missing cell gives the missing marker;
\* otherwise the text is trimmed, one leading "<" and the blanks after it are
\* dropped, and the remainder's number is returned if it is one, the missing
\* marker if not.
C8_ParseNeverRaises ==
    parsed # Pending =>
        /\ parsed.exc = "none"
        /\ p_val_str.t = "na" => parsed.v = NaN
        /\ p_val_str.t # "na" =>
              LET r == float(Remainder(str(p_val_str)))
              IN  parsed.v = IF r.ok THEN r.v ELSE NaN
        /\ p_val_str = Text(<<"<", " ", "1", "e", "-", "3", "0">>) => parsed.v = Float(1, -30)
        /\ p_val_str = Text(<<"0", ".", "0", "5">>) => parsed.v = Float(5, -2)
        /\ p_val_str = Text(<<>>) => parsed.v = NaN
        /\ p_val_str = Text(<<"n", "/", "a">>) => parsed.v = NaN
        /\ p_val_str.t = "num" => parsed.v = p_val_str.v

C8_Witness ==
    /\ parsed.exc = "none"
    /\ p_val_str = Text(<<" ", "<", " ", " ", "5", "e", "-", "5", " ">>)
    /\ parsed.v = Float(5, -5)

====
